---- MODULE Spec2Model ----
(***************************************************************************)
(* Marketplace backend: the account / token handlers of routers/users.py   *)
(* and the review / rating handlers of routers/reviews.py, over the        *)
(* relational store they share.  Every handler is a sequence of steps, one *)
(* per committed transaction or per read it decides on; concurrent         *)
(* requests interleave between the steps.  The store variables hold the    *)
(* COMMITTED rows only; what a request has executed but not yet committed  *)
(* lives in its own request record.                                        *)
(***************************************************************************)
EXTENDS Integers, Sequences, FiniteSets, TLC

(* ---------------------------- bounds ----------------------------------- *)
NumProcs == 2          \* concurrent requests
MaxReviews == 3        \* review rows the table may hold
MaxGrade == 2          \* grades are 1..MaxGrade
MaxTokens == 2         \* tokens the clients keep for later presentation
MaxNewUsers == 1       \* accounts registered on top of the seeded ones
MaxLifeReviews == 1    \* review rows when every operation is in play
MaxRaceReviews == 2    \* review rows in the concurrent specifications

MaxEmails == 3         \* e-mail addresses a request may name
MaxPasswords == 1      \* secrets an account may have

Procs == 1..NumProcs
Grades == 1..MaxGrade
CreateRoles == {"buyer", "seller"}
Emails == 1..MaxEmails
Passwords == 1..MaxPasswords
WrongPassword == MaxPasswords + 1

VARIABLES users, products, reviews, categories, tokens, req

vars == <<users, products, reviews, categories, tokens, req>>
store == <<users, products, reviews, categories>>

(* ---------------------------- rows ------------------------------------- *)
NoUser == [exists |-> FALSE, email |-> 0, hashed_password |-> 0,
           role |-> "none", is_active |-> FALSE]

\* Credential store: a one-way digest and its verification.
hash_password(secret) == <<"digest", secret>>

verify_password(secret, digest) == digest = hash_password(secret)

User(e, pw, r) == [exists |-> TRUE, email |-> e, hashed_password |-> hash_password(pw),
                   role |-> r, is_active |-> TRUE]

Product(s) == [seller_id |-> s, is_active |-> TRUE, rating |-> 0]

Review(u, p, g) == [user_id |-> u, product_id |-> p, grade |-> g, is_active |-> TRUE]

Category(a) == [admin_id |-> a, is_active |-> TRUE]

\* The rows the store is seeded with: an admin, a buyer and two sellers, a
\* product of each seller, and a category of the admin.
SeedRows == <<User(1, 1, "admin"), User(2, 1, "buyer"), User(3, 1, "seller"),
              User(4, 1, "seller")>>

SeedProducts == <<Product(3), Product(4)>>

SeedCategories == <<Category(1)>>

UserIds == 1..(Len(SeedRows) + MaxNewUsers)
ProductIds == DOMAIN SeedProducts
CategoryIds == DOMAIN SeedCategories
ReviewIds == 1..Len(reviews)

(* ---------------------------- tokens ----------------------------------- *)
BadToken == [sub |-> 0, role |-> "none", id |-> 0, token_type |-> "invalid"]

Claims(u, id) == [sub |-> u.email, role |-> u.role, id |-> id]

create_access_token(data) ==
    [sub |-> data.sub, role |-> data.role, id |-> data.id, token_type |-> "access"]

create_refresh_token(data) ==
    [sub |-> data.sub, role |-> data.role, id |-> data.id, token_type |-> "refresh"]

Presentable == tokens \cup {BadToken}

Keep(new) == IF Cardinality(tokens \cup new) <= MaxTokens THEN tokens \cup new ELSE tokens

(* ---------------------------- requests --------------------------------- *)
NoPend == [acct |-> FALSE, prods |-> {}, revs |-> {}, cats |-> {}]

Idle == [pc |-> "idle", op |-> "none", tok |-> BadToken, cur |-> 0, uid |-> 0,
         pid |-> 0, rid |-> 0, grade |-> 0, email |-> 0, pw |-> 0, role |-> "none",
         avg |-> <<0, 0>>, pend |-> NoPend, owned |-> {}, status |-> 0, detail |-> "",
         out |-> {}]

Done(r, code) == [r EXCEPT !.pc = "done", !.status = code]

(* ---------------------------- queries ---------------------------------- *)
ActiveByEmail(e) == {u \in UserIds : users[u].exists /\ users[u].email = e /\ users[u].is_active}

ActiveById(i) == {u \in UserIds : u = i /\ users[u].exists /\ users[u].is_active}

ByEmail(e) == {u \in UserIds : users[u].exists /\ users[u].email = e}

\* The unique index on Account.email: a write that would give the address e
\* to the row self while another row holds it is rejected by the store.
UniqueViolation(e, self) == ByEmail(e) \ {self} # {}

First(S) == CHOOSE x \in S : \A y \in S : x <= y

ActiveReviewsOf(revs, p) ==
    {r \in 1..Len(revs) : revs[r].product_id = p /\ revs[r].is_active}

RECURSIVE SumGrades(_, _)
SumGrades(revs, S) ==
    IF S = {} THEN 0
    ELSE LET r == CHOOSE x \in S : TRUE IN revs[r].grade + SumGrades(revs, S \ {r})

\* Variant: the average taken over every review of the product, retracted or not.
AvgRatingAll(revs, p) ==
    LET S == {r \in 1..Len(revs) : revs[r].product_id = p}
    IN <<SumGrades(revs, S), Cardinality(S)>>

\* func.avg(grade) over the active reviews of the product, "or 0.0": the pair
\* <<sum, count>> stands for the quotient, <<0, 0>> for the 0.0 of an empty set.
AvgRating(revs, p) ==
    LET S == ActiveReviewsOf(revs, p) IN <<SumGrades(revs, S), Cardinality(S)>>

\* Numeric(2, 1): the rating column keeps one decimal.  A rating is held in
\* tenths; the quotient s/n is rounded to the nearest tenth, and a tie goes
\* either way (half-up on PostgreSQL, half-even on the float of SQLite).
Numeric21(avg) ==
    IF avg[2] = 0 THEN {0}
    ELSE {r \in 0..99 : 2 * r * avg[2] - 20 * avg[1] <= avg[2]
                        /\ 20 * avg[1] - 2 * r * avg[2] <= avg[2]}

(* ---------------------------- guards ----------------------------------- *)
\* get_current_user: the account a bearer ACCESS token resolves to, 0 if none.
get_current_user(t) ==
    IF t.token_type = "access" /\ ActiveByEmail(t.sub) # {}
    THEN First(ActiveByEmail(t.sub)) ELSE 0

\* get_current_bayer: status of the buyer-only guard for a resolved account.
get_current_bayer(cur) ==
    IF cur = 0 THEN 401 ELSE IF users[cur].role # "buyer" THEN 403 ELSE 200

(* ---------------------------- create_review ---------------------------- *)
CrStart(p) ==
    /\ req[p].pc = "idle"
    /\ \E t \in Presentable, pr \in ProductIds, g \in Grades :
         LET cur == get_current_user(t)
             d == [Idle EXCEPT !.op = "create_review", !.tok = t, !.cur = cur]
             r == [d EXCEPT !.pid = pr, !.grade = g]
         IN req' = [req EXCEPT ![p] =
                IF get_current_bayer(cur) # 200 THEN Done(d, get_current_bayer(cur))
                ELSE IF ~products[pr].is_active THEN Done(r, 404)
                ELSE [r EXCEPT !.pc = "cr_commit"]]
    /\ UNCHANGED <<users, products, reviews, categories, tokens>>

CrCommit(p) ==
    /\ req[p].pc = "cr_commit"
    /\ reviews' = Append(reviews, Review(req[p].cur, req[p].pid, req[p].grade))
    /\ req' = [req EXCEPT ![p].pc = "cr_avg", ![p].rid = Len(reviews) + 1]
    /\ UNCHANGED <<users, products, categories, tokens>>

CrAvg(p) ==
    /\ req[p].pc = "cr_avg"
    /\ req' = [req EXCEPT ![p].pc = "cr_rating", ![p].avg = AvgRating(reviews, req[p].pid)]
    /\ UNCHANGED <<users, products, reviews, categories, tokens>>

CrRating(p) ==
    /\ req[p].pc = "cr_rating"
    /\ \E r \in Numeric21(req[p].avg) :
         products' = [products EXCEPT ![req[p].pid].rating = r]
    /\ req' = [req EXCEPT ![p] = Done(req[p], 201)]
    /\ UNCHANGED <<users, reviews, categories, tokens>>

(* ---------------------------- delete_review ---------------------------- *)
\* Variant: delete_review that looks the review up by id alone.
DrStartInactiveToo(p) ==
    /\ req[p].pc = "idle"
    /\ \E t \in Presentable, rv \in 1..MaxReviews :
         LET cur == get_current_user(t)
             d == [Idle EXCEPT !.op = "delete_review", !.tok = t, !.cur = cur]
             r == [d EXCEPT !.rid = rv]
         IN req' = [req EXCEPT ![p] =
                IF cur = 0 THEN Done(d, 401)
                ELSE IF rv \notin ReviewIds THEN Done(r, 404)
                ELSE IF users[cur].role \notin {"buyer", "admin"} THEN Done(r, 403)
                ELSE IF users[cur].role = "buyer" /\ cur # reviews[rv].user_id
                     THEN Done(r, 403)
                ELSE [r EXCEPT !.pc = "dr_commit", !.pid = reviews[rv].product_id]]
    /\ UNCHANGED <<users, products, reviews, categories, tokens>>

\* Variant: delete_review without the role and authorship checks.
DrStartAnyone(p) ==
    /\ req[p].pc = "idle"
    /\ \E t \in Presentable, rv \in 1..MaxReviews :
         LET cur == get_current_user(t)
             d == [Idle EXCEPT !.op = "delete_review", !.tok = t, !.cur = cur]
             r == [d EXCEPT !.rid = rv]
         IN req' = [req EXCEPT ![p] =
                IF cur = 0 THEN Done(d, 401)
                ELSE IF ~(rv \in ReviewIds /\ reviews[rv].is_active) THEN Done(r, 404)
                ELSE [r EXCEPT !.pc = "dr_commit", !.pid = reviews[rv].product_id]]
    /\ UNCHANGED <<users, products, reviews, categories, tokens>>

DrStart(p) ==
    /\ req[p].pc = "idle"
    /\ \E t \in Presentable, rv \in 1..MaxReviews :
         LET cur == get_current_user(t)
             d == [Idle EXCEPT !.op = "delete_review", !.tok = t, !.cur = cur]
             r == [d EXCEPT !.rid = rv]
         IN req' = [req EXCEPT ![p] =
                IF cur = 0 THEN Done(d, 401)
                ELSE IF ~(rv \in ReviewIds /\ reviews[rv].is_active) THEN Done(r, 404)
                ELSE IF users[cur].role \notin {"buyer", "admin"} THEN Done(r, 403)
                ELSE IF users[cur].role = "buyer" /\ cur # reviews[rv].user_id
                     THEN Done(r, 403)
                ELSE [r EXCEPT !.pc = "dr_commit", !.pid = reviews[rv].product_id]]
    /\ UNCHANGED <<users, products, reviews, categories, tokens>>

\* Variant: delete_review that removes the row instead of flagging it.
DrCommitRemove(p) ==
    /\ req[p].pc = "dr_commit"
    /\ reviews' = [i \in 1..(Len(reviews) - 1) |->
                      IF i < req[p].rid THEN reviews[i] ELSE reviews[i + 1]]
    /\ req' = [req EXCEPT ![p].pc = "dr_avg"]
    /\ UNCHANGED <<users, products, categories, tokens>>

DrCommit(p) ==
    /\ req[p].pc = "dr_commit"
    /\ reviews' = [reviews EXCEPT ![req[p].rid].is_active = FALSE]
    /\ req' = [req EXCEPT ![p].pc = "dr_avg"]
    /\ UNCHANGED <<users, products, categories, tokens>>

DrAvg(p) ==
    /\ req[p].pc = "dr_avg"
    /\ req' = [req EXCEPT ![p].pc = "dr_rating", ![p].avg = AvgRating(reviews, req[p].pid)]
    /\ UNCHANGED <<users, products, reviews, categories, tokens>>

DrRating(p) ==
    /\ req[p].pc = "dr_rating"
    /\ \E r \in Numeric21(req[p].avg) :
         products' = [products EXCEPT ![req[p].pid].rating = r]
    /\ req' = [req EXCEPT ![p] = Done(req[p], 200)]
    /\ UNCHANGED <<users, reviews, categories, tokens>>

(* ---------------------------- delete_user ------------------------------ *)
\* Variant: the product cascade without its WHERE clause.
CascadeProductsAll(uid) == ProductIds

\* Variant: the review cascade left out.
CascadeReviewsNone(uid) == {}

\* The rows an UPDATE ... WHERE owner = uid touches when it executes.
CascadeProducts(uid) == {i \in ProductIds : products[i].seller_id = uid}

CascadeReviews(uid) == {i \in ReviewIds : reviews[i].user_id = uid}

CascadeCategories(uid) == {i \in CategoryIds : categories[i].admin_id = uid}

\* History for the cascade properties: the active resources of the role's
\* kind that the account owns when delete_user starts.
Owned(uid, role) ==
    IF role = "seller"
        THEN {<<"product", i>> : i \in {j \in ProductIds :
                  products[j].seller_id = uid /\ products[j].is_active}}
    ELSE IF role = "buyer"
        THEN {<<"review", i>> : i \in {j \in ReviewIds :
                  reviews[j].user_id = uid /\ reviews[j].is_active}}
    ELSE IF role = "admin"
        THEN {<<"category", i>> : i \in {j \in CategoryIds :
                  categories[j].admin_id = uid /\ categories[j].is_active}}
    ELSE {}

IsActive(res) ==
    IF res[1] = "product" THEN products[res[2]].is_active
    ELSE IF res[1] = "review" THEN reviews[res[2]].is_active
    ELSE categories[res[2]].is_active

\* Variant: delete_user open to any authenticated principal.
DuStartAnyone(p) ==
    /\ req[p].pc = "idle"
    /\ \E t \in Presentable, target \in UserIds :
         LET cur == get_current_user(t)
             d == [Idle EXCEPT !.op = "delete_user", !.tok = t, !.cur = cur]
             r == [d EXCEPT !.uid = target]
         IN req' = [req EXCEPT ![p] =
                IF cur = 0 THEN Done(d, 401)
                ELSE IF ~users[target].exists THEN Done(r, 404)
                ELSE [r EXCEPT !.pc = "du_account", !.role = users[target].role,
                               !.owned = Owned(target, users[target].role)]]
    /\ UNCHANGED <<users, products, reviews, categories, tokens>>

DuStart(p) ==
    /\ req[p].pc = "idle"
    /\ \E t \in Presentable, target \in UserIds :
         LET cur == get_current_user(t)
             d == [Idle EXCEPT !.op = "delete_user", !.tok = t, !.cur = cur]
             r == [d EXCEPT !.uid = target]
         IN req' = [req EXCEPT ![p] =
                IF cur = 0 THEN Done(d, 401)
                ELSE IF users[cur].role # "admin" /\ cur # target THEN Done(r, 403)
                ELSE IF ~users[target].exists THEN Done(r, 404)
                ELSE [r EXCEPT !.pc = "du_account", !.role = users[target].role,
                               !.owned = Owned(target, users[target].role)]]
    /\ UNCHANGED <<users, products, reviews, categories, tokens>>

\* Variant: the account update committed on its own, ahead of the cascade.
DuAccountAutocommit(p) ==
    /\ req[p].pc = "du_account"
    /\ users' = [users EXCEPT ![req[p].uid].is_active = FALSE]
    /\ req' = [req EXCEPT ![p].pc = "du_cascade"]
    /\ UNCHANGED <<products, reviews, categories, tokens>>

\* update(UserModel) ... values(is_active=False): executed, not yet committed.
DuAccount(p) ==
    /\ req[p].pc = "du_account"
    /\ req' = [req EXCEPT ![p].pc = "du_cascade", ![p].pend.acct = TRUE]
    /\ UNCHANGED <<users, products, reviews, categories, tokens>>

\* The one cascade of the role read at the start: executed, not yet committed.
DuCascade(p) ==
    /\ req[p].pc = "du_cascade"
    /\ req' = [req EXCEPT ![p].pc = "du_commit",
                 ![p].pend.prods = IF req[p].role = "seller"
                                   THEN CascadeProducts(req[p].uid) ELSE {},
                 ![p].pend.revs = IF req[p].role = "buyer"
                                  THEN CascadeReviews(req[p].uid) ELSE {},
                 ![p].pend.cats = IF req[p].role = "admin"
                                  THEN CascadeCategories(req[p].uid) ELSE {}]
    /\ UNCHANGED <<users, products, reviews, categories, tokens>>

\* db.commit(): every executed write becomes durable at once.
DuCommit(p) ==
    /\ req[p].pc = "du_commit"
    /\ users' = [users EXCEPT ![req[p].uid].is_active = (@ /\ ~req[p].pend.acct)]
    /\ products' = [i \in ProductIds |->
                      IF i \in req[p].pend.prods
                      THEN [products[i] EXCEPT !.is_active = FALSE] ELSE products[i]]
    /\ reviews' = [i \in ReviewIds |->
                     IF i \in req[p].pend.revs
                     THEN [reviews[i] EXCEPT !.is_active = FALSE] ELSE reviews[i]]
    /\ categories' = [i \in CategoryIds |->
                        IF i \in req[p].pend.cats
                        THEN [categories[i] EXCEPT !.is_active = FALSE] ELSE categories[i]]
    /\ req' = [req EXCEPT ![p] = Done([req[p] EXCEPT !.pend = NoPend], 200)]
    /\ UNCHANGED tokens

\* A store-level failure before the commit: the session is closed with its
\* transaction open, and the executed writes are rolled back.
DuFail(p) ==
    /\ req[p].pc \in {"du_account", "du_cascade", "du_commit"}
    /\ req' = [req EXCEPT ![p] = Done([req[p] EXCEPT !.pend = NoPend], 500)]
    /\ UNCHANGED <<users, products, reviews, categories, tokens>>

(* ---------------------------- create_user ------------------------------ *)
FreeIds == {u \in UserIds : ~users[u].exists}

CuStart(p) ==
    /\ req[p].pc = "idle"
    /\ FreeIds # {}
    /\ \E e \in Emails, pw \in Passwords, ro \in CreateRoles :
         LET r == [Idle EXCEPT !.op = "create_user", !.email = e, !.pw = pw, !.role = ro]
         IN req' = [req EXCEPT ![p] =
                IF ByEmail(e) # {} THEN Done(r, 400) ELSE [r EXCEPT !.pc = "cu_commit"]]
    /\ UNCHANGED <<users, products, reviews, categories, tokens>>

\* db.add + commit; the unique index on email rejects a duplicate that a
\* concurrent request committed after the check.
CuCommit(p) ==
    /\ req[p].pc = "cu_commit"
    /\ FreeIds # {}
    /\ IF UniqueViolation(req[p].email, First(FreeIds))
       THEN /\ req' = [req EXCEPT ![p] = Done(req[p], 500)]
            /\ UNCHANGED users
       ELSE /\ users' = [users EXCEPT ![First(FreeIds)] =
                            User(req[p].email, req[p].pw, req[p].role)]
            /\ req' = [req EXCEPT ![p] = Done([req[p] EXCEPT !.uid = First(FreeIds)], 201)]
    /\ UNCHANGED <<products, reviews, categories, tokens>>

(* ---------------------------- update_user ------------------------------ *)
UuStart(p) ==
    /\ req[p].pc = "idle"
    /\ \E target \in UserIds, e \in Emails, pw \in Passwords, ro \in CreateRoles :
         LET r == [Idle EXCEPT !.op = "update_user", !.uid = target, !.email = e,
                               !.pw = pw, !.role = ro]
         IN req' = [req EXCEPT ![p] =
                IF ~users[target].exists THEN Done(r, 404)
                ELSE [r EXCEPT !.pc = "uu_commit"]]
    /\ UNCHANGED <<users, products, reviews, categories, tokens>>

UuCommit(p) ==
    /\ req[p].pc = "uu_commit"
    /\ IF UniqueViolation(req[p].email, req[p].uid)
       THEN /\ req' = [req EXCEPT ![p] = Done(req[p], 500)]
            /\ UNCHANGED users
       ELSE /\ users' = [users EXCEPT ![req[p].uid].email = req[p].email,
                                      ![req[p].uid].hashed_password = hash_password(req[p].pw),
                                      ![req[p].uid].role = req[p].role]
            /\ req' = [req EXCEPT ![p] = Done(req[p], 200)]
    /\ UNCHANGED <<products, reviews, categories, tokens>>

(* ---------------------------- login ------------------------------------ *)
\* The response of login: status, the tokens issued, the account they are for.
\* Variant: a login that tells the caller when the identity is unknown.
login_telling(e, pw) ==
    LET S == ActiveByEmail(e) IN
    IF ByEmail(e) = {}
    THEN [status |-> 404, detail |-> "User not found", out |-> {}, acct |-> 0]
    ELSE IF S = {} \/ ~verify_password(pw, users[First(S)].hashed_password)
    THEN [status |-> 401, detail |-> "Incorrect email or password", out |-> {}, acct |-> 0]
    ELSE [status |-> 200, detail |-> "",
          out |-> {create_access_token(Claims(users[First(S)], First(S))),
                   create_refresh_token(Claims(users[First(S)], First(S)))},
          acct |-> First(S)]

login(e, pw) ==
    LET S == ActiveByEmail(e) IN
    IF S = {} \/ ~verify_password(pw, users[First(S)].hashed_password)
    THEN [status |-> 401, detail |-> "Incorrect email or password", out |-> {}, acct |-> 0]
    ELSE [status |-> 200, detail |-> "",
          out |-> {create_access_token(Claims(users[First(S)], First(S))),
                   create_refresh_token(Claims(users[First(S)], First(S)))},
          acct |-> First(S)]

Login(p) ==
    /\ req[p].pc = "idle"
    /\ \E e \in Emails, pw \in Passwords \cup {WrongPassword} :
         LET res == login(e, pw) IN
         /\ req' = [req EXCEPT ![p] =
                Done([Idle EXCEPT !.op = "login", !.email = e, !.pw = pw,
                                  !.out = res.out, !.cur = res.acct,
                                  !.detail = res.detail], res.status)]
         /\ tokens' = Keep(res.out)
    /\ UNCHANGED <<users, products, reviews, categories>>

(* ---------------------------- refresh_token ---------------------------- *)
\* jwt.decode: a token with a bad signature, a damaged one or an expired one
\* raises; every token the service issued and that has not expired decodes.
Decodes(t) == t # BadToken

\* Variant: rotation without the token_type check.
refresh_token_any_kind(t) ==
    IF ~Decodes(t) THEN [status |-> 401, out |-> {}, acct |-> 0]
    ELSE IF ActiveByEmail(t.sub) = {} THEN [status |-> 401, out |-> {}, acct |-> 0]
    ELSE LET u == First(ActiveByEmail(t.sub)) IN
         [status |-> 200, out |-> {create_refresh_token(Claims(users[u], u))}, acct |-> u]

refresh_token(t) ==
    IF ~Decodes(t) \/ t.token_type # "refresh" THEN [status |-> 401, out |-> {}, acct |-> 0]
    ELSE IF ActiveByEmail(t.sub) = {} THEN [status |-> 401, out |-> {}, acct |-> 0]
    ELSE LET u == First(ActiveByEmail(t.sub)) IN
         [status |-> 200, out |-> {create_refresh_token(Claims(users[u], u))}, acct |-> u]

RefreshToken(p) ==
    /\ req[p].pc = "idle"
    /\ \E t \in Presentable :
         LET res == refresh_token(t) IN
         /\ req' = [req EXCEPT ![p] =
                Done([Idle EXCEPT !.op = "refresh_token", !.tok = t,
                                  !.out = res.out, !.cur = res.acct], res.status)]
         /\ tokens' = Keep(res.out)
    /\ UNCHANGED <<users, products, reviews, categories>>

(* ---------------------------- get_new_access_token --------------------- *)
get_new_access_token(t) ==
    IF ~Decodes(t) \/ t.token_type # "refresh" THEN [status |-> 401, out |-> {}, acct |-> 0]
    ELSE IF ActiveById(t.id) = {} THEN [status |-> 401, out |-> {}, acct |-> 0]
    ELSE LET u == First(ActiveById(t.id)) IN
         [status |-> 200, out |-> {create_access_token(Claims(users[u], u))}, acct |-> u]

GetNewAccessToken(p) ==
    /\ req[p].pc = "idle"
    /\ \E t \in Presentable :
         LET res == get_new_access_token(t) IN
         /\ req' = [req EXCEPT ![p] =
                Done([Idle EXCEPT !.op = "get_new_access_token", !.tok = t,
                                  !.out = res.out, !.cur = res.acct], res.status)]
         /\ tokens' = Keep(res.out)
    /\ UNCHANGED <<users, products, reviews, categories>>

(* ---------------------------- response --------------------------------- *)
Return(p) ==
    /\ req[p].pc = "done"
    /\ req' = [req EXCEPT ![p] = Idle]
    /\ UNCHANGED <<users, products, reviews, categories, tokens>>

(* ---------------------------- initial states --------------------------- *)
SeedUsers == [u \in UserIds |-> IF u <= Len(SeedRows) THEN SeedRows[u] ELSE NoUser]

\* Every seeded account has logged in; one client also kept its refresh token.
SeedTokens ==
    {create_access_token(Claims(SeedRows[u], u)) : u \in DOMAIN SeedRows}
        \cup {create_refresh_token(Claims(SeedRows[2], 2))}

InitStore ==
    /\ users = SeedUsers
    /\ products = SeedProducts
    /\ reviews = <<>>
    /\ categories = SeedCategories
    /\ tokens = SeedTokens
    /\ req = [p \in Procs |-> Idle]

\* The account/token specification starts from two accounts, nobody logged in.
AuthRows == SubSeq(SeedRows, 1, 2)

AuthUsers == [u \in UserIds |-> IF u <= Len(AuthRows) THEN AuthRows[u] ELSE NoUser]

InitAuth ==
    /\ users = AuthUsers
    /\ products = SeedProducts
    /\ reviews = <<>>
    /\ categories = SeedCategories
    /\ tokens = {}
    /\ req = [p \in Procs |-> Idle]

\* The whole service starts from an admin, a buyer and a seller who owns every
\* product; each has logged in and the buyer also kept the refresh token.
LifeRows == <<SeedRows[1], SeedRows[2], SeedRows[4]>>

LifeUsers == [u \in UserIds |-> IF u <= Len(LifeRows) THEN LifeRows[u] ELSE NoUser]

LifeTokens ==
    {create_access_token(Claims(LifeRows[u], u)) : u \in DOMAIN LifeRows}
        \cup {create_refresh_token(Claims(LifeRows[2], 2))}

InitLife ==
    /\ users = LifeUsers
    /\ products = [i \in ProductIds |-> Product(Len(LifeRows))]
    /\ reviews = <<>>
    /\ categories = SeedCategories
    /\ tokens = LifeTokens
    /\ req = [p \in Procs |-> Idle]

(* ---------------------------- specifications --------------------------- *)
\* The review table has room for one more row, counting the inserts that
\* requests have been admitted for and not yet committed.
RoomFor(cap) == Len(reviews) + Cardinality({q \in Procs : req[q].pc = "cr_commit"}) < cap

\* Review mutations executed one at a time.
SeqNext ==
    \/ RoomFor(MaxReviews) /\ CrStart(1)
    \/ CrCommit(1) \/ CrAvg(1) \/ CrRating(1)
    \/ DrStart(1) \/ DrCommit(1) \/ DrAvg(1) \/ DrRating(1)
    \/ Return(1)

SpecReviews == InitStore /\ [][SeqNext]_vars

\* Concurrent review mutations.
RaceNext ==
    \E p \in Procs :
        \/ RoomFor(MaxRaceReviews) /\ CrStart(p)
        \/ CrCommit(p) \/ CrAvg(p) \/ CrRating(p)
        \/ DrStart(p) \/ DrCommit(p) \/ DrAvg(p) \/ DrRating(p)
        \/ Return(p)

SpecRace == InitStore /\ [][RaceNext]_vars

\* Account deactivations racing with each other and with review submissions.
CascadeNext ==
    \E p \in Procs :
        \/ RoomFor(MaxRaceReviews) /\ CrStart(p)
        \/ CrCommit(p) \/ CrAvg(p) \/ CrRating(p)
        \/ DuStart(p) \/ DuAccount(p) \/ DuCascade(p) \/ DuCommit(p) \/ DuFail(p)
        \/ Return(p)

SpecCascade == InitStore /\ [][CascadeNext]_vars

\* Registration, update, deactivation and the token operations, one request
\* at a time.
Registered == Cardinality({u \in UserIds : users[u].exists})

AuthNext ==
    \/ Registered < Len(AuthRows) + MaxNewUsers /\ CuStart(1)
    \/ CuCommit(1) \/ UuStart(1) \/ UuCommit(1)
    \/ Login(1) \/ RefreshToken(1) \/ GetNewAccessToken(1)
    \/ DuStart(1) \/ DuAccount(1) \/ DuCascade(1) \/ DuCommit(1) \/ DuFail(1)
    \/ Return(1)

SpecAuth == InitAuth /\ [][AuthNext]_vars

\* Every operation of the service, one request at a time.
LifeNext ==
    \/ Registered < Len(LifeRows) + MaxNewUsers /\ CuStart(1)
    \/ CuCommit(1) \/ UuStart(1) \/ UuCommit(1)
    \/ Login(1) \/ RefreshToken(1) \/ GetNewAccessToken(1)
    \/ RoomFor(MaxLifeReviews) /\ CrStart(1)
    \/ CrCommit(1) \/ CrAvg(1) \/ CrRating(1)
    \/ DrStart(1) \/ DrCommit(1) \/ DrAvg(1) \/ DrRating(1)
    \/ DuStart(1) \/ DuAccount(1) \/ DuCascade(1) \/ DuCommit(1) \/ DuFail(1)
    \/ Return(1)

SpecLife == InitLife /\ [][LifeNext]_vars

(* ======================================================================= *)
(*                              properties                                 *)
(* ======================================================================= *)
Quiet == \A p \in Procs : req[p].pc \in {"idle", "done"}

\* The grades that count for a product: those of its reviews with
\* is_active = true, as <<count, sum>>.
RECURSIVE Tally(_, _)
Tally(pr, n) ==
    IF n = 0 THEN <<0, 0>>
    ELSE LET rest == Tally(pr, n - 1) IN
         IF reviews[n].product_id = pr /\ reviews[n].is_active
         THEN <<rest[1] + 1, rest[2] + reviews[n].grade>> ELSE rest

\* The stored rating (in tenths) is exactly the mean grade of the product's
\* active reviews, 0 if there is none.
ExactMean(pr) ==
    LET t == Tally(pr, Len(reviews))
    IN IF t[1] = 0 THEN products[pr].rating = 0
       ELSE products[pr].rating * t[1] = 10 * t[2]

\* The stored rating (in tenths) is within half a tenth of the mean grade of
\* the product's active reviews, 0 if there is none.
RoundedMean(pr) ==
    LET t == Tally(pr, Len(reviews))
        d == 2 * (products[pr].rating * t[1] - 10 * t[2])
    IN IF t[1] = 0 THEN products[pr].rating = 0
       ELSE d <= t[1] /\ -d <= t[1]

\* C1 (as stated): after any sequence of completed create_review and
\* delete_review operations run one at a time, every product's rating equals
\* the arithmetic mean of the grades of its active reviews, 0 if there is none.
C1_RatingIsExactMean == Quiet => \A pr \in ProductIds : ExactMean(pr)

\* C1 (amended): after any sequence of completed create_review and
\* delete_review operations run one at a time, every product's rating is the
\* mean grade of its active reviews rounded to one decimal (within 0.05 of the
\* mean), 0 if there is none.
C1_RatingIsRoundedMean == Quiet => \A pr \in ProductIds : RoundedMean(pr)

\* A retraction has completed and left a product with a rating of 1.5.
C1_Witness ==
    /\ req[1].pc = "done" /\ req[1].op = "delete_review" /\ req[1].status = 200
    /\ Len(reviews) = MaxReviews
    /\ products[req[1].pid].rating = 15

\* C2: when delete_user commits for a buyer, every product on which that buyer
\* had the only active review has its rating back at 0 in the same commit.
C2_BuyerCascadeResetsRating ==
    [][\A p \in Procs :
          (/\ req[p].pc = "du_commit" /\ req[p].role = "buyer"
           /\ req'[p].pc = "done" /\ req'[p].status = 200)
          => \A pr \in ProductIds :
                (/\ \E i \in ReviewIds : reviews[i].product_id = pr /\ reviews[i].is_active
                 /\ \A i \in ReviewIds :
                       (reviews[i].product_id = pr /\ reviews[i].is_active)
                       => reviews[i].user_id = req[p].uid)
                => products'[pr].rating = 0]_vars

\* C3: in every committed state in which a request's review mutation is
\* durable and its rating update is still to come, the product's rating
\* already agrees with the product's active reviews.
C3_ReviewAndRatingAtomic ==
    \A p \in Procs :
        req[p].pc \in {"cr_avg", "cr_rating", "dr_avg", "dr_rating"}
        => RoundedMean(req[p].pid)

\* C4: once all concurrently running review mutations have completed, every
\* product's rating is the (rounded) mean grade of its active reviews.
C4_ConcurrentMutationsConverge == Quiet => \A pr \in ProductIds : RoundedMean(pr)

\* C5: the only committed transition that turns an account inactive is the
\* commit of a delete_user for it, and in the state that commit produces every
\* resource of the account's role that it owned when the operation started
\* is inactive too.
C5_CascadeDurableWithAccount ==
    [][\A u \in UserIds :
          (users[u].is_active /\ ~users'[u].is_active)
          => \E p \in Procs :
                /\ req[p].pc = "du_commit" /\ req[p].uid = u
                /\ req'[p].pc = "done" /\ req'[p].status = 200
                /\ \A res \in req[p].owned : ~IsActive(res)']_vars

\* A buyer that owned an active review has been deactivated.
C5_Witness ==
    \E p \in Procs :
        /\ req[p].pc = "done" /\ req[p].op = "delete_user" /\ req[p].status = 200
        /\ req[p].role = "buyer" /\ req[p].owned # {}
        /\ ~users[req[p].uid].is_active

\* C6: the commit of a delete_user for a seller sets is_active = false on
\* exactly the products with that seller_id, changes nothing else of them, and
\* changes no field of any other product.
C6_SellerCascadeExact ==
    [][\A p \in Procs :
          (/\ req[p].pc = "du_commit" /\ req[p].role = "seller"
           /\ req'[p].pc = "done" /\ req'[p].status = 200)
          => \A i \in ProductIds :
                products'[i] = IF products[i].seller_id = req[p].uid
                               THEN [products[i] EXCEPT !.is_active = FALSE]
                               ELSE products[i]]_vars

\* A seller that owned an active product has been deactivated: its product is
\* inactive, the other seller's product is still active.
C6_Witness ==
    \E p \in Procs :
        /\ req[p].pc = "done" /\ req[p].op = "delete_user" /\ req[p].status = 200
        /\ req[p].role = "seller" /\ req[p].owned # {}
        /\ \A i \in ProductIds : products[i].is_active <=> products[i].seller_id # req[p].uid

\* C7: no step of a delete_user other than its successful commit changes a
\* committed row: when the operation fails before the commit, accounts,
\* products, reviews and categories are as they were.
C7_FailureLeavesNothing ==
    [][\A p \in Procs :
          (/\ req[p].pc \in {"du_account", "du_cascade", "du_commit"}
           /\ req'[p] # req[p]
           /\ ~(req[p].pc = "du_commit" /\ req'[p].pc = "done" /\ req'[p].status = 200))
          => /\ UNCHANGED store
             /\ req'[p].pc = "done" => (req'[p].status = 500 /\ req'[p].pend = NoPend)]_vars

\* A delete_user failed after its cascade had been executed: the account and
\* what it owned are still active.
C7_Witness ==
    \E p \in Procs :
        /\ req[p].pc = "done" /\ req[p].op = "delete_user" /\ req[p].status = 500
        /\ req[p].owned # {}
        /\ users[req[p].uid].is_active
        /\ \A res \in req[p].owned : IsActive(res)

\* C8: a rotation of an issued, unexpired refresh token succeeds and issues a
\* refresh token if the token's account is active at call time, and fails with
\* 401 and issues nothing if that account has been deactivated.
C8_RotationFollowsAccount ==
    (req[1].pc = "done" /\ req[1].op = "refresh_token" /\ req[1].tok.token_type = "refresh")
    => IF users[req[1].tok.id].is_active
       THEN req[1].status = 200 /\ req[1].out # {}
       ELSE req[1].status = 401 /\ req[1].out = {}

C10_RenewalValidatesLikeRotation ==
    \A t \in Presentable :
        /\ refresh_token(t).status = 200 <=> get_new_access_token(t).status = 200
        /\ refresh_token(t).status = 200
           => refresh_token(t).acct = get_new_access_token(t).acct

\* C11: a successful rotation issues a refresh token whose sub, role and id
\* are those of the presented refresh token, even after accounts have been
\* created, updated or deactivated since that token was issued.
C11_RotationKeepsClaims ==
    (req[1].pc = "done" /\ req[1].op = "refresh_token" /\ req[1].status = 200)
    => \A n \in req[1].out :
          /\ n.token_type = "refresh"
          /\ n.sub = req[1].tok.sub
          /\ n.role = req[1].tok.role
          /\ n.id = req[1].tok.id

\* C12: a login with an unknown identity, with a known identity and a wrong
\* secret, or for a deactivated account is answered 401 with one and the same
\* detail, issues no token and changes neither the store nor any token held.
C12_LoginFailuresAlike ==
    [][(req[1].pc = "idle" /\ req'[1].op = "login"
        /\ \/ ByEmail(req'[1].email) = {}
           \/ \E u \in ByEmail(req'[1].email) :
                 \/ ~users[u].is_active
                 \/ ~verify_password(req'[1].pw, users[u].hashed_password))
       => /\ req'[1].pc = "done"
          /\ req'[1].status = 401
          /\ req'[1].detail = "Incorrect email or password"
          /\ req'[1].out = {}
          /\ UNCHANGED <<store, tokens>>]_vars

\* A deactivated account presented its right secret and login was refused.
C12_Witness ==
    /\ req[1].pc = "done" /\ req[1].op = "login" /\ req[1].status = 401
    /\ \E u \in ByEmail(req[1].email) :
          ~users[u].is_active /\ verify_password(req[1].pw, users[u].hashed_password)

\* C14: delete_review on a review that is there and active, called by a seller
\* or by a buyer who is not the review's author, is answered 403 and leaves
\* every review's is_active and every product's rating as they were; a
\* retraction goes ahead only for the review's author or an admin.
C14_RetractionByAuthorOrAdmin ==
    [][(req[1].pc = "idle" /\ req'[1].op = "delete_review" /\ req'[1].cur # 0
        /\ req'[1].rid \in ReviewIds /\ reviews[req'[1].rid].is_active)
       => LET who == req'[1].cur
              rev == reviews[req'[1].rid]
          IN IF users[who].role = "admin"
                \/ (users[who].role = "buyer" /\ who = rev.user_id)
             THEN req'[1].pc = "dr_commit"
             ELSE /\ req'[1].pc = "done" /\ req'[1].status = 403
                  /\ UNCHANGED <<users, products, reviews, categories>>]_vars

\* A buyer asked to retract an active review written by another buyer and was
\* refused.
C14_Witness ==
    /\ req[1].pc = "done" /\ req[1].op = "delete_review" /\ req[1].status = 403
    /\ users[req[1].cur].role = "buyer"
    /\ reviews[req[1].rid].is_active
    /\ reviews[req[1].rid].user_id # req[1].cur

\* C15: in every committed store state an account that is not active owns no
\* active resource: no active review carries its id as user_id, no active
\* product as seller_id and no active category as admin_id.
C15_InactiveOwnsNothing ==
    \A u \in UserIds :
        (users[u].exists /\ ~users[u].is_active)
        => /\ \A i \in ReviewIds : reviews[i].user_id = u => ~reviews[i].is_active
           /\ \A i \in ProductIds : products[i].seller_id = u => ~products[i].is_active
           /\ \A i \in CategoryIds : categories[i].admin_id = u => ~categories[i].is_active

\* C16: delete_review of a review that is absent or already inactive is
\* answered 404 and changes nothing in the store, so the review stays inactive
\* and the rating stays; and the commit of a delete_user leaves every review
\* of the target that was already inactive inactive and otherwise as it was.
C16_RetractedStaysRetracted ==
    [][/\ (req[1].pc = "idle" /\ req'[1].op = "delete_review" /\ req'[1].cur # 0
           /\ ~(req'[1].rid \in ReviewIds /\ reviews[req'[1].rid].is_active))
          => /\ req'[1].pc = "done" /\ req'[1].status = 404
             /\ UNCHANGED <<users, products, reviews, categories>>
       /\ (req[1].pc = "du_commit" /\ req'[1].pc = "done" /\ req'[1].status = 200)
          => /\ DOMAIN reviews' = DOMAIN reviews
             /\ \A i \in ReviewIds :
                   (reviews[i].user_id = req[1].uid /\ ~reviews[i].is_active)
                   => reviews'[i] = reviews[i]]_vars

\* The author, or an admin, asked to retract a review that had already been
\* retracted and was answered 404.
C16_Witness ==
    /\ req[1].pc = "done" /\ req[1].op = "delete_review" /\ req[1].status = 404
    /\ req[1].rid \in ReviewIds /\ ~reviews[req[1].rid].is_active
    /\ \/ users[req[1].cur].role = "admin"
       \/ req[1].cur = reviews[req[1].rid].user_id

\* C17: no step removes an account, product, category or review row, and no
\* step changes the user_id, product_id or grade of a review; the commit of
\* delete_review touches the one review it retracts, and the commit of
\* delete_user touches no review of another account.
C17_RetractionOnlyFlags ==
    [][/\ Len(reviews') >= Len(reviews)
       /\ \A i \in ReviewIds :
             [reviews'[i] EXCEPT !.is_active = reviews[i].is_active] = reviews[i]
       /\ \A u \in UserIds : users[u].exists => users'[u].exists
       /\ DOMAIN products' = DOMAIN products
       /\ DOMAIN categories' = DOMAIN categories
       /\ req[1].pc = "dr_commit"
          => \A i \in ReviewIds : i # req[1].rid => reviews'[i] = reviews[i]
       /\ req[1].pc = "du_commit"
          => \A i \in ReviewIds : reviews[i].user_id # req[1].uid => reviews'[i] = reviews[i]
      ]_vars

\* A review has been retracted by delete_review: it is still there, inactive,
\* with a grade, an author and a product.
C17_Witness ==
    /\ req[1].pc = "done" /\ req[1].op = "delete_review" /\ req[1].status = 200
    /\ req[1].rid \in ReviewIds
    /\ ~reviews[req[1].rid].is_active
    /\ reviews[req[1].rid].grade \in Grades
    /\ reviews[req[1].rid].product_id = req[1].pid

\* C18: delete_user called by a principal that is not an admin, for a user_id
\* other than its own, is answered 403 and leaves the store as it was; and an
\* account is only ever deactivated by a delete_user of an admin or of the
\* account itself.
C18_DeactivationByAdminOrSelf ==
    [][/\ (req[1].pc = "idle" /\ req'[1].op = "delete_user" /\ req'[1].cur # 0
           /\ users[req'[1].cur].role # "admin" /\ req'[1].cur # req'[1].uid)
          => /\ req'[1].pc = "done" /\ req'[1].status = 403
             /\ UNCHANGED <<users, products, reviews, categories>>
       /\ \A u \in UserIds :
             (users[u].is_active /\ ~users'[u].is_active)
             => /\ req[1].op = "delete_user" /\ req[1].uid = u
                /\ users[req[1].cur].role = "admin" \/ req[1].cur = u]_vars

\* A seller asked to deactivate the active buyer's account and was refused.
C18_Witness ==
    /\ req[1].pc = "done" /\ req[1].op = "delete_user" /\ req[1].status = 403
    /\ users[req[1].cur].role = "seller"
    /\ users[req[1].uid].is_active /\ users[req[1].uid].role = "buyer"

\* C19: no step makes an inactive account or an inactive review active again,
\* and once an account is inactive no login under its address, and no rotation
\* or access renewal of a refresh token issued to it, succeeds or issues a
\* token; no token is ever issued in the name of an inactive account.
C19_DeactivationIsPermanent ==
    [][/\ \A u \in UserIds :
             (users[u].exists /\ ~users[u].is_active) => ~users'[u].is_active
       /\ \A i \in ReviewIds : ~reviews[i].is_active => ~reviews'[i].is_active
       /\ (req[1].pc = "idle" /\ req'[1].op = "login"
           /\ \E u \in ByEmail(req'[1].email) : ~users[u].is_active)
          => (req'[1].status = 401 /\ req'[1].out = {})
       /\ (req[1].pc = "idle" /\ req'[1].op \in {"refresh_token", "get_new_access_token"}
           /\ req'[1].tok.token_type = "refresh"
           /\ users[req'[1].tok.id].exists /\ ~users[req'[1].tok.id].is_active)
          => (req'[1].status = 401 /\ req'[1].out = {})
       /\ (req[1].pc = "idle"
           /\ req'[1].op \in {"login", "refresh_token", "get_new_access_token"})
          => \A n \in req'[1].out : users[n.id].exists /\ users[n.id].is_active]_vars

====
